---- MODULE Spec2Model ----
(***************************************************************************)
(* Model of the search / prediction / analytics core of ai-services:       *)
(*   - app/endpoints/search.py : the /predict and / (search) handlers      *)
(*   - search_engine.py        : SearchEngine.search                       *)
(*   - database_manager.py     : DatabaseManager.execute and the analytics *)
(*                               operations built on it                    *)
(* Three specifications share the module: SpecPredict (the /predict        *)
(* handler), SpecEngine (SearchEngine.search) and Spec (the analytics      *)
(* store used by concurrent callers through the one shared connection,     *)
(* together with the / search handler).                                    *)
(***************************************************************************)
EXTENDS Integers, Sequences, FiniteSets, TLC

VARIABLES
    predictCall,    \* the /predict request being answered: inputs, source calls, response
    engineCall,     \* the SearchEngine.search call being answered: inputs and outcome
    titleCall,      \* the search_by_title call being answered: inputs and outcome
    service,        \* the import of the endpoints module: files, position, requests answered
    request,        \* a search request on its way through SearchEngine.search, call by call
    db,             \* the committed rows of the analytics tables
    conn,           \* DatabaseManager.conn: the one connection and its open transaction
    ids,            \* the tables' id sequences (never rolled back)
    clock,          \* wall-clock time, as NOW() reads it
    proc,           \* per caller: the operation it is in and where
    calls,          \* per session id: update_search_session calls made, and returned normally
    made            \* the number of store operations and search requests made so far

vars == <<predictCall, engineCall, titleCall, service, request, db, conn, ids, clock, proc, calls, made>>

storeVars == <<db, conn, ids, clock, proc, calls, made>>

others == <<predictCall, engineCall, titleCall, service, request>>

(***************************************************************************)
(* Strings are sequences of characters, so that str.lower() is a real      *)
(* conversion and not the identity.                                        *)
(***************************************************************************)
LowerChar(c) ==
    CASE c = "M" -> "m"
      [] c = "N" -> "n"
      [] c = "E" -> "e"
      [] c = "L" -> "l"
      [] c = "V" -> "v"
      [] OTHER -> c

lower(s) == [i \in 1..Len(s) |-> LowerChar(s[i])]

\* Python's seq[:n], negative n included (seq[:-1] drops the last element).
Slice(s, n) ==
    LET m == IF n >= 0 THEN (IF n < Len(s) THEN n ELSE Len(s))
             ELSE (IF Len(s) + n > 0 THEN Len(s) + n ELSE 0)
    IN  SubSeq(s, 1, m)

\* All sequences over S of length 0..n.
SeqsUpTo(S, n) == UNION {[1..m -> S] : m \in 0..n}

(***************************************************************************)
(* /predict  (search.py, predict_queries)                                  *)
(***************************************************************************)
MaxDbLen == 2
MaxEngLen == 2
MaxLimit == 3

\* "machine learning", "machine vision", "Machine Learning basics", "Machine Vision"
PredStrings == { <<"m", "l">>, <<"m", "v">>, <<"M", "L", "b">>, <<"M", "V">> }

PartialQueries == { << >>, <<"m">>, <<"m", "a">>, <<"M", "a", "c">> }

Limits == (-1)..MaxLimit

\* What a prediction source hands back: a list, or an exception.
NotCalled == [called |-> FALSE, ok |-> FALSE, value |-> << >>]
Returned(v) == [called |-> TRUE, ok |-> TRUE, value |-> v]
Raised == [called |-> TRUE, ok |-> FALSE, value |-> << >>]

\* db_manager.get_matching_queries(partial_query, limit)
get_matching_queries == {Raised} \cup {Returned(v) : v \in SeqsUpTo(PredStrings, MaxDbLen)}

\* search_engine.predict_queries(partial_query, limit)
engine_predict_queries == {Raised} \cup {Returned(v) : v \in SeqsUpTo(PredStrings, MaxEngLen)}

Http200(body) == [status |-> 200, body |-> body]
Http500 == [status |-> 500, body |-> << >>]

\* search.py:33  if len(partial_query) < 2
TooShortLen1(partial_query) == Len(partial_query) < 1
TooShort(partial_query) == Len(partial_query) < 2

\* The dedup key of a prediction: pred.lower()
DedupKeyExact(pred) == pred
DedupKey(pred) == lower(pred)

\* search.py:59-62: the loop over db_predictions; st = [all, seen]
RECURSIVE AddDbPredictions(_, _)
AddDbPredictions(preds, st) ==
    IF preds = << >> THEN st
    ELSE LET pred == Head(preds)
         IN  IF DedupKey(pred) \notin st.seen
             THEN AddDbPredictions(Tail(preds),
                      [all |-> Append(st.all, pred), seen |-> st.seen \cup {DedupKey(pred)}])
             ELSE AddDbPredictions(Tail(preds), st)

\* search.py:65-68: the loop over search_predictions
RECURSIVE AddSearchPredictions(_, _, _)
AddSearchPredictions(preds, st, limit) ==
    IF preds = << >> THEN st
    ELSE LET pred == Head(preds)
         IN  IF DedupKey(pred) \notin st.seen /\ Len(st.all) < limit
             THEN AddSearchPredictions(Tail(preds),
                      [all |-> Append(st.all, pred), seen |-> st.seen \cup {DedupKey(pred)}],
                      limit)
             ELSE AddSearchPredictions(Tail(preds), st, limit)

\* search.py:54-71
MergePredictions(db_predictions, search_predictions, limit) ==
    LET afterDb == AddDbPredictions(db_predictions, [all |-> << >>, seen |-> {}])
        afterSearch == AddSearchPredictions(search_predictions, afterDb, limit)
    IN  Slice(afterSearch.all, limit)

\* search.py:43-52: a failing engine source is logged and leaves
\* search_predictions = [], and the merge goes on with the DB matches alone
EngineFailurePropagates(db_predictions, limit) == Http500
EngineFailureResponse(db_predictions, limit) ==
    Http200(MergePredictions(db_predictions, << >>, limit))

\* search.py:37-40 with 73-75: a failing DB source is caught by the outer
\* handler and answered with a 500
DbFailureSwallowed(limit) == Http200(<< >>)
DbFailureResponse(limit) == Http500

\* The whole handler, search.py:25-75.  dbp and eng are what the two sources
\* answer when called.
PredictHandler(partial_query, limit, dbp, eng) ==
    IF TooShort(partial_query)
    THEN [partial_query |-> partial_query, limit |-> limit,
          db |-> NotCalled, engine |-> NotCalled, response |-> Http200(<< >>)]
    ELSE IF ~dbp.ok
    THEN [partial_query |-> partial_query, limit |-> limit,
          db |-> dbp, engine |-> NotCalled, response |-> DbFailureResponse(limit)]
    ELSE [partial_query |-> partial_query, limit |-> limit,
          db |-> dbp, engine |-> eng,
          response |-> IF eng.ok
                       THEN Http200(MergePredictions(dbp.value, eng.value, limit))
                       ELSE EngineFailureResponse(dbp.value, limit)]

NoPredictCall ==
    [partial_query |-> << >>, limit |-> 0, db |-> NotCalled, engine |-> NotCalled,
     response |-> [status |-> 0, body |-> << >>]]

PredictIdle == predictCall = NoPredictCall

predict_queries ==
    /\ PredictIdle
    /\ \E partial_query \in PartialQueries, limit \in Limits,
          dbp \in get_matching_queries, eng \in engine_predict_queries :
           predictCall' = PredictHandler(partial_query, limit, dbp, eng)
    /\ UNCHANGED <<engineCall, titleCall, service, request, storeVars>>

\* The response has been sent; the next request can be taken.
PredictResponseSent ==
    /\ ~PredictIdle
    /\ predictCall' = NoPredictCall
    /\ UNCHANGED <<engineCall, titleCall, service, request, storeVars>>

(***************************************************************************)
(* SearchEngine.search  (search_engine.py)                                 *)
(***************************************************************************)
CorpusSize == 2
MaxK == 3

\* FAISS fills the slots it has no neighbour for with ordinal -1.
Sentinel == -1

Ordinals == 0..(CorpusSize - 1)

TitleOf(i) ==
    CASE i % 3 = 0 -> <<"N", "e", "u">>
      [] i % 3 = 1 -> <<"n", "e", "t">>
      [] OTHER -> <<"b", "i", "o">>

\* self.chunk_mapping: ordinal -> chunk metadata, loaded once (search_engine.py:35-36).
\* Every third chunk carries no 'Domain' key.
chunk_mapping ==
    [i \in Ordinals |->
        [ordinal |-> i, Title |-> TitleOf(i),
         hasDomain |-> (i % 3 # 2),
         Domain |-> IF i % 3 = 0 THEN "health" ELSE IF i % 3 = 1 THEN "climate" ELSE "",
         summary |-> 100 + i]]

\* result['metadata'].get('Domain', ' ')
GetDomain(chunk) == IF chunk.hasDomain THEN chunk.Domain ELSE " "

Domains == {"health", "climate", " "}

\* experts_manager.find_experts_by_domain(domain): the collaborator's ordered
\* list, of any length from none to four, for each domain
ExpertLists == {SubSeq(<<"e1", "e2", "e3", "e4">>, 1, n) : n \in 0..4}

find_experts_by_domain == [Domains -> ExpertLists]

\* The index's answer to the one query the / handler is modelled with: the
\* corpus from the last ordinal down
CurrentIndex(k) ==
    [ok |-> TRUE,
     I |-> [j \in 1..k |-> IF j <= CorpusSize THEN CorpusSize - j ELSE Sentinel]]

\* The collaborator's answers while the / handler is modelled
CurrentExperts ==
    [d \in Domains |-> IF d = "health" THEN <<"e1", "e2", "e3", "e4">>
                       ELSE IF d = "climate" THEN <<"e1", "e2">> ELSE << >>]

\* self.index.search(query_vector, k): min(k, corpus size) distinct ordinals in
\* the index's order, then sentinels; or an exception.
IndexReturns(k) ==
    LET n == IF k < CorpusSize THEN k ELSE CorpusSize
        real == {s \in [1..n -> Ordinals] : \A i, j \in 1..n : i # j => s[i] # s[j]}
    IN  {[j \in 1..k |-> IF j <= n THEN s[j] ELSE Sentinel] : s \in real}

IndexOutcomes(k) ==
    {[ok |-> FALSE, I |-> << >>]} \cup {[ok |-> TRUE, I |-> I] : I \in IndexReturns(k)}

\* D[0]: ascending distances, the largest float for a sentinel slot
Distances(I) == [j \in 1..Len(I) |-> IF I[j] = Sentinel THEN 999 ELSE 10 * j]

SearchOk(results) == [ok |-> TRUE, error |-> "", results |-> results]
SearchRaised(error) == [ok |-> FALSE, error |-> error, results |-> << >>]

\* search_engine.py:56  the experts kept for a result
ExpertsKeptAll(experts) == experts
ExpertsKept(experts) == Slice(experts, 3)

\* A loop body that answers a failed experts lookup with a result without experts
BuildResultWithoutExperts(idx, score, experts, expertsFail) ==
    IF idx \notin DOMAIN chunk_mapping THEN SearchRaised("KeyError")
    ELSE SearchOk(<< [metadata |-> chunk_mapping[idx],
                      similarity_score |-> score,
                      experts |-> IF expertsFail THEN << >>
                                  ELSE ExpertsKept(experts[GetDomain(chunk_mapping[idx])])] >>)

\* search_engine.py:49-58, the loop body for one (idx, score): the result, or
\* the exception of chunk_mapping[idx] or of the experts lookup
BuildResult(idx, score, experts, expertsFail) ==
    IF idx \notin DOMAIN chunk_mapping THEN SearchRaised("KeyError")
    ELSE IF expertsFail THEN SearchRaised("experts")
    ELSE SearchOk(<< [metadata |-> chunk_mapping[idx],
                      similarity_score |-> score,
                      experts |-> ExpertsKept(experts[GetDomain(chunk_mapping[idx])])] >>)

\* A loop that puts each new result in front of the earlier ones
RECURSIVE SearchLoopPrepends(_, _, _, _, _, _)
SearchLoopPrepends(I, D, j, experts, failAt, results) ==
    IF j > Len(I) THEN SearchOk(results)
    ELSE LET r == BuildResult(I[j], D[j], experts, j = failAt)
         IN  IF ~r.ok THEN r
             ELSE SearchLoopPrepends(I, D, j + 1, experts, failAt, r.results \o results)

\* search_engine.py:48-60: for idx, score in zip(I[0], D[0]); failAt is the
\* iteration whose experts lookup raises (0: none does)
RECURSIVE SearchLoop(_, _, _, _, _, _)
SearchLoop(I, D, j, experts, failAt, results) ==
    IF j > Len(I) THEN SearchOk(results)
    ELSE LET r == BuildResult(I[j], D[j], experts, j = failAt)
         IN  IF ~r.ok THEN r
             ELSE SearchLoop(I, D, j + 1, experts, failAt, results \o r.results)

\* SearchEngine.search(query, k), search_engine.py:41-60
SearchEngine_search(k, embeddingOk, index, experts, failAt) ==
    IF ~embeddingOk THEN SearchRaised("embedding")
    ELSE IF ~index.ok THEN SearchRaised("index")
    ELSE SearchLoop(index.I, Distances(index.I), 1, experts, failAt, << >>)

NoEngineCall ==
    [k |-> 0, embeddingOk |-> TRUE, index |-> [ok |-> FALSE, I |-> << >>],
     experts |-> CurrentExperts, failAt |-> 0, out |-> SearchRaised("")]

EngineIdle == engineCall = NoEngineCall

EngineSearchCall ==
    /\ EngineIdle
    /\ \E k \in 1..MaxK, embeddingOk \in BOOLEAN, failAt \in 0..MaxK :
         \E index \in IndexOutcomes(k), experts \in find_experts_by_domain :
           /\ failAt <= k
           /\ engineCall' = [k |-> k, embeddingOk |-> embeddingOk, index |-> index,
                             experts |-> experts, failAt |-> failAt,
                             out |-> SearchEngine_search(k, embeddingOk, index,
                                                         experts, failAt)]
    /\ UNCHANGED <<predictCall, titleCall, service, request, storeVars>>

EngineSearchReturned ==
    /\ ~EngineIdle
    /\ engineCall' = NoEngineCall
    /\ UNCHANGED <<predictCall, titleCall, service, request, storeVars>>

(***************************************************************************)
(* SearchEngine.search_by_title  (search_engine.py:71-85)                  *)
(***************************************************************************)
MaxCatalog == 3
MaxTitleK == 2

Titles == { <<"N", "e", "u">>, <<"n", "e", "t">>, <<"b", "i", "o">> }

TitleQueries == { << >>, <<"n", "e">>, <<"E">>, <<"N", "E", "U">>, <<"x">> }

\* self.chunk_mapping.items() in the dict's order: entry i is chunk i - 1
Catalogs == SeqsUpTo(Titles, MaxCatalog)

CatalogItems(catalog) ==
    [i \in 1..Len(catalog) |-> [ordinal |-> i - 1, Title |-> catalog[i]]]

\* Python's `a in b` on strings
Contains(b, a) ==
    \E i \in 0..(Len(b) - Len(a)) : SubSeq(b, i + 1, i + Len(a)) = a

\* A comparison that does not fold case
TitleMatchesCaseSensitive(title_query, doc) == Contains(doc.Title, title_query)

\* line 78: title_query.lower() in doc['Title'].lower()
TitleMatches(title_query, doc) == Contains(lower(doc.Title), lower(title_query))

\* lines 75-82: the scan; every match is appended with similarity 1.0 (10 tenths)
RECURSIVE TitleScan(_, _, _)
TitleScan(items, title_query, matching_docs) ==
    IF items = << >> THEN matching_docs
    ELSE TitleScan(Tail(items), title_query,
                   IF TitleMatches(title_query, Head(items))
                   THEN Append(matching_docs, [metadata |-> Head(items), similarity |-> 10])
                   ELSE matching_docs)

\* line 84: list.sort(key=similarity, reverse=True), a stable sort: doc goes
\* behind every entry whose similarity is not smaller than its own
InsertBySimilarity(sorted, doc) ==
    LET n == Cardinality({i \in 1..Len(sorted) : sorted[i].similarity >= doc.similarity})
    IN  SubSeq(sorted, 1, n) \o <<doc>> \o SubSeq(sorted, n + 1, Len(sorted))

RECURSIVE SortBySimilarity(_, _)
SortBySimilarity(docs, sorted) ==
    IF docs = << >> THEN sorted
    ELSE SortBySimilarity(Tail(docs), InsertBySimilarity(sorted, Head(docs)))

\* search_by_title(title_query, k), lines 71-85
search_by_title(catalog, title_query, k) ==
    Slice(SortBySimilarity(TitleScan(CatalogItems(catalog), title_query, << >>), << >>), k)

NoTitleCall == [called |-> FALSE, catalog |-> << >>, title_query |-> << >>, k |-> 0,
                out |-> << >>]

TitleIdle == titleCall = NoTitleCall

TitleSearchCall ==
    /\ TitleIdle
    /\ \E catalog \in Catalogs, title_query \in TitleQueries, k \in (-1)..MaxTitleK :
          titleCall' = [called |-> TRUE, catalog |-> catalog, title_query |-> title_query,
                        k |-> k, out |-> search_by_title(catalog, title_query, k)]
    /\ UNCHANGED <<predictCall, engineCall, service, request, storeVars>>

TitleSearchReturned ==
    /\ ~TitleIdle
    /\ titleCall' = NoTitleCall
    /\ UNCHANGED <<predictCall, engineCall, service, request, storeVars>>

(***************************************************************************)
(* One search request, call by call (search.py:83-114 around               *)
(* search_engine.py:41-60).  Each of the two external calls returns,       *)
(* raises, or never returns; the code waits for it synchronously.          *)
(***************************************************************************)
MaxRequests == 3

CallBehaviours == {"returns", "raises", "never"}

NoRequest ==
    [pc |-> "idle", k |-> 0, embedding |-> "returns", index |-> "returns",
     status |-> 0, completed |-> 0]

RequestStep(pc) ==
    /\ request.pc = pc
    /\ UNCHANGED <<predictCall, engineCall, titleCall, service, storeVars>>

\* search.py:78-89: a request arrives and the handler calls the engine
ReceiveSearch ==
    /\ RequestStep("idle")
    /\ request.completed < MaxRequests
    /\ \E k \in 1..MaxK, embedding \in CallBehaviours, index \in CallBehaviours :
          request' = [request EXCEPT !.pc = "get_embedding", !.k = k, !.status = 0,
                                     !.embedding = embedding, !.index = index]

\* search_engine.py:45 with 14-16: model.encode is waited for; there is no
\* step for a call that never returns
GetEmbedding ==
    /\ RequestStep("get_embedding")
    /\ request.embedding # "never"
    /\ request' = IF request.embedding = "returns"
                  THEN [request EXCEPT !.pc = "index_search"]
                  ELSE [request EXCEPT !.pc = "respond", !.status = 500]

\* search_engine.py:46: index.search is waited for in the same way
IndexSearch ==
    /\ RequestStep("index_search")
    /\ request.index # "never"
    /\ request' = IF request.index = "returns"
                  THEN [request EXCEPT !.pc = "assemble"]
                  ELSE [request EXCEPT !.pc = "respond", !.status = 500]

\* search_engine.py:48-60 and search.py:91-110
AssembleResults ==
    /\ RequestStep("assemble")
    /\ request' = [request EXCEPT
                      !.pc = "respond",
                      !.status = IF SearchLoop(CurrentIndex(request.k).I,
                                               Distances(CurrentIndex(request.k).I),
                                               1, CurrentExperts, 0, << >>).ok
                                 THEN 200 ELSE 500]

\* search.py:110 or 112-114: the response goes out
RespondSearch ==
    /\ RequestStep("respond")
    /\ request' = [request EXCEPT !.pc = "idle", !.completed = @ + 1]

(***************************************************************************)
(* Startup: the import of the endpoints module (search.py:15-23) builds    *)
(* the SearchEngine (search_engine.py:19-38) and the DatabaseManager; the  *)
(* handlers are defined below it in the same module (search.py:25-114).    *)
(***************************************************************************)
MaxServed == 3

RequestKinds == {"search", "search_by_title", "predict"}

NoneAnswered == [r \in RequestKinds |-> 0]

StartupState(indexFile, mappingFile, pc) ==
    [indexFile |-> indexFile, mappingFile |-> mappingFile, pc |-> pc, error |-> "",
     answered |-> NoneAnswered]

Importing == {StartupState(i, m, "embedding_model") : i, m \in BOOLEAN}

Imported == StartupState(TRUE, TRUE, "serving")

AtStep(pc) == service.pc = pc /\ UNCHANGED <<predictCall, engineCall, titleCall, request, storeVars>>

\* A step of the constructors went through, or raised error
Proceeds(pc) == service' = [service EXCEPT !.pc = pc]
Raises(error) == service' = [service EXCEPT !.pc = "raised", !.error = error]

\* search_engine.py:20  self.embedding_model = EmbeddingModel()
LoadEmbeddingModel ==
    /\ AtStep("embedding_model")
    /\ \/ Proceeds("index")
       \/ Raises("embedding_model")

\* search_engine.py:27-30: the index file must be a file, and is then read
LoadIndex ==
    /\ AtStep("index")
    /\ IF ~service.indexFile THEN Raises("FileNotFoundError")
       ELSE \/ Proceeds("chunk_mapping")
            \/ Raises("read_index")

\* search_engine.py:32-36: the mapping file must be a file, and is then unpickled
LoadChunkMapping ==
    /\ AtStep("chunk_mapping")
    /\ IF ~service.mappingFile THEN Raises("FileNotFoundError")
       ELSE \/ Proceeds("experts_manager")
            \/ Raises("pickle")

\* search_engine.py:38  self.experts_manager = ExpertsManager()
CreateExpertsManager ==
    /\ AtStep("experts_manager")
    /\ \/ Proceeds("db_manager")
       \/ Raises("experts_manager")

\* search.py:19-20  db_manager = DatabaseManager(); the import then runs on
\* to the handlers' definitions
CreateDatabaseManager ==
    /\ AtStep("db_manager")
    /\ \/ Proceeds("serving")
       \/ Raises("db_manager")

\* An import that logs the exception and goes on
InitFailureLogged(error) == "serving"

\* search.py:21-23: the exception is logged and raised again, the import of
\* the module fails and none of its handlers comes to exist
InitFailure(error) == "failed"

ModuleInitFails ==
    /\ AtStep("raised")
    /\ service' = [service EXCEPT !.pc = InitFailure(service.error)]

\* search.py:25-114: a request reaches a handler of the imported module and
\* is answered
ServeRequest ==
    /\ AtStep("serving")
    /\ \E kind \in RequestKinds :
          /\ service.answered[kind] < MaxServed
          /\ service' = [service EXCEPT !.answered[kind] = @ + 1]

(***************************************************************************)
(* The analytics store  (database_manager.py) and the / search handler     *)
(* (search.py:77-114).  One DatabaseManager, hence one connection and one  *)
(* cursor, is built at import (search.py:19, database_manager.py:17-18)    *)
(* and every caller goes through it.                                       *)
(***************************************************************************)
MaxCalls == 2
MaxClock == 2

\* Two callers: two request threads sharing the module-level db_manager
Procs == {1, 2}
SessionIds == 1..(MaxCalls + 1)
ResultCounts == {0, 1}
SearchIds == {1}
ExpertIds == {"e1", "e2"}
RankPositions == {0, 2}

\* expert_id: str = None
None == ""

\* The database the manager connects to holds the rows earlier calls wrote:
\* one session not yet updated, one search log and one attribution of it,
\* neither clicked.  expert_searches is kept per (search_id, expert_id) with
\* `copies`, the number of rows stored for the pair: nothing in the table's
\* representation keeps a second row of a pair out.
StoredTables ==
    [search_sessions |->
        (1 :> [query_count |-> 0, successful_searches |-> 0, end_timestamp |-> -1]),
     search_logs |->
        (1 :> [result_count |-> 1, success_rate |-> 10, clicked |-> FALSE]),
     expert_searches |->
        (<<1, "e1">> :> [rank_position |-> 0, clicked |-> FALSE, click_timestamp |-> -1,
                         copies |-> 1]),
     query_history_ai |-> << >>,
     query_predictions |-> << >>]

StoredIds ==
    [search_sessions |-> 1, search_logs |-> 1, query_history_ai |-> 0,
     query_predictions |-> 0]

\* f with key k bound to v (an INSERT of a new key, or an overwrite)
Put(f, k, v) == [x \in DOMAIN f \cup {k} |-> IF x = k THEN v ELSE f[x]]

(* The statements the operations hand to execute *)
\* An INSERT that stores no result count
InsertQueryWithoutCount(result_count) ==
    [kind |-> "insert_query", id |-> 0, expert_id |-> None, n |-> 0]

\* database_manager.py:281-285
InsertQuery(result_count) ==
    [kind |-> "insert_query", id |-> 0, expert_id |-> None, n |-> result_count]
InsertSearchLog(result_count) ==
    [kind |-> "insert_search_log", id |-> 0, expert_id |-> None, n |-> result_count]
InsertExpertSearch(search_id, expert_id, rank_position) ==
    [kind |-> "insert_expert_search", id |-> search_id, expert_id |-> expert_id,
     n |-> rank_position]
\* database_manager.py:348-352
InsertPrediction ==
    [kind |-> "insert_prediction", id |-> 0, expert_id |-> None, n |-> 0]
InsertSession ==
    [kind |-> "insert_session", id |-> 0, expert_id |-> None, n |-> 0]
UpdateSession(session_id, inc) ==
    [kind |-> "update_session", id |-> session_id, expert_id |-> None, n |-> inc]
ClickSearchLog(search_id) ==
    [kind |-> "click_search_log", id |-> search_id, expert_id |-> None, n |-> 0]
ClickExpertSearch(search_id, expert_id) ==
    [kind |-> "click_expert_search", id |-> search_id, expert_id |-> expert_id, n |-> 0]
NoStatement ==
    [kind |-> "none", id |-> 0, expert_id |-> None, n |-> 0]

\* A metrics query that marks a search log clicked while it reads
MetricsQueryMarksClicked(metrics) == ClickSearchLog(1)

\* The SELECT of a metrics operation (database_manager.py:410-426, 442-457,
\* 475-484): an aggregation that reads search_logs or expert_searches
MetricsQuery(metrics) ==
    [kind |-> "select", id |-> 0, expert_id |-> None, n |-> 0]

\* A rate that counts an empty result list as a success
success_rate_nonnegative(result_count) == IF result_count >= 0 THEN 10 ELSE 0

\* database_manager.py:322  1.0 if result_count > 0 else 0.0  (in tenths)
success_rate(result_count) == IF result_count > 0 THEN 10 ELSE 0

\* database_manager.py:374-378: the UPDATE of one session row
UpdatedSessionOverwrite(row, inc, now) ==
    [query_count |-> 1, successful_searches |-> inc, end_timestamp |-> now]
UpdatedSession(row, inc, now) ==
    [query_count |-> row.query_count + 1,
     successful_searches |-> row.successful_searches + inc,
     end_timestamp |-> now]

\* An UPDATE that flips the flag instead of setting it
ClickedAttributionToggles(row, now) ==
    [row EXCEPT !.clicked = ~row.clicked, !.click_timestamp = now]

\* database_manager.py:397-400: the UPDATE of one attribution row
ClickedAttributionFirstWins(row, now) ==
    [row EXCEPT !.clicked = TRUE,
                !.click_timestamp = IF row.clicked THEN row.click_timestamp ELSE now]
ClickedAttribution(row, now) ==
    [row EXCEPT !.clicked = TRUE, !.click_timestamp = now]

\* An update that stores the attribution when there is none to update
UpsertAttribution(view, search_id, expert_id, now) ==
    [view EXCEPT !.expert_searches =
        Put(@, <<search_id, expert_id>>,
            IF <<search_id, expert_id>> \in DOMAIN view.expert_searches
            THEN ClickedAttribution(view.expert_searches[<<search_id, expert_id>>], now)
            ELSE [rank_position |-> 0, clicked |-> TRUE, click_timestamp |-> now,
                  copies |-> 1])]

\* database_manager.py:396-401: UPDATE expert_searches ... WHERE search_id = %s
\* AND expert_id = %s touches the row of the pair, if there is one
UpdateAttribution(view, search_id, expert_id, now) ==
    IF <<search_id, expert_id>> \in DOMAIN view.expert_searches
    THEN [view EXCEPT !.expert_searches[<<search_id, expert_id>>] =
                          ClickedAttribution(@, now)]
    ELSE view

\* The id the sequence of a table hands to an INSERT ... RETURNING id
NextId(seqs, table) == seqs[table] + 1

\* The tables after statement st has run at transaction time `now`
ApplyStatement(st, view, seqs, now) ==
    CASE st.kind = "insert_query" ->
           [view EXCEPT !.query_history_ai =
               Put(@, NextId(seqs, "query_history_ai"),
                   [result_count |-> st.n, search_type |-> "semantic"])]
      [] st.kind = "insert_search_log" ->
           [view EXCEPT !.search_logs =
               Put(@, NextId(seqs, "search_logs"),
                   [result_count |-> st.n, success_rate |-> success_rate(st.n),
                    clicked |-> FALSE])]
      [] st.kind = "insert_expert_search" ->
           IF <<st.id, st.expert_id>> \in DOMAIN view.expert_searches
           THEN [view EXCEPT !.expert_searches[<<st.id, st.expert_id>>].copies = @ + 1]
           ELSE [view EXCEPT !.expert_searches =
                    Put(@, <<st.id, st.expert_id>>,
                        [rank_position |-> st.n, clicked |-> FALSE,
                         click_timestamp |-> -1, copies |-> 1])]
      [] st.kind = "insert_prediction" ->
           [view EXCEPT !.query_predictions =
               Put(@, NextId(seqs, "query_predictions"), [confidence_score |-> 5])]
      [] st.kind = "insert_session" ->
           [view EXCEPT !.search_sessions =
               Put(@, NextId(seqs, "search_sessions"),
                   [query_count |-> 0, successful_searches |-> 0, end_timestamp |-> -1])]
      [] st.kind = "update_session" ->
           IF st.id \in DOMAIN view.search_sessions
           THEN [view EXCEPT !.search_sessions[st.id] = UpdatedSession(@, st.n, now)]
           ELSE view
      [] st.kind = "click_search_log" ->
           IF st.id \in DOMAIN view.search_logs
           THEN [view EXCEPT !.search_logs[st.id].clicked = TRUE]
           ELSE view
      [] st.kind = "click_expert_search" ->
           UpdateAttribution(view, st.id, st.expert_id, now)
      [] OTHER -> view

SequenceOf(st) ==
    CASE st.kind = "insert_query" -> "query_history_ai"
      [] st.kind = "insert_search_log" -> "search_logs"
      [] st.kind = "insert_session" -> "search_sessions"
      [] st.kind = "insert_prediction" -> "query_predictions"
      [] OTHER -> "none"

\* A table without the constraint
NoUniqueConstraint(st, view) == FALSE

\* The schema's uniqueness of (search_id, expert_id) in expert_searches: the
\* plain INSERT of database_manager.py:335-339 (no ON CONFLICT clause) fails
\* on a pair that is already stored
UniqueViolation(st, view) ==
    /\ st.kind = "insert_expert_search"
    /\ <<st.id, st.expert_id>> \in DOMAIN view.expert_searches

ConnIdle(tables) == [status |-> "idle", view |-> tables, start |-> 0]

\* at and pre: the time and the committed rows when the operation was entered
IdleProc ==
    [op |-> "idle", pc |-> "idle", stmt |-> NoStatement, then |-> NoStatement,
     ret |-> 0, raised |-> FALSE, at |-> 0, pre |-> StoredTables,
     results |-> << >>, response |-> [status |-> 0, body |-> << >>]]

Idle(p) == proc[p].pc = "idle"

\* A caller may enter an operation
MayCall(p) == Idle(p) /\ made < MaxCalls

(* ---- DatabaseManager.execute, database_manager.py:20-31 ---- *)

\* line 23, self.cur.execute(query, params), by caller p whose state becomes
\* pr: statement st joins the open transaction of the shared connection
\* (opening one if none is open), or fails -- a database error, the
\* uniqueness constraint, or the transaction already being aborted -- and
\* leaves the transaction aborted.
CursorExecute(p, pr, st) ==
    \E dbError \in BOOLEAN :
       LET now == IF conn.status = "idle" THEN clock ELSE conn.start
           seq == SequenceOf(st)
       IN  IF conn.status = "aborted" \/ dbError \/ UniqueViolation(st, conn.view)
           THEN /\ conn' = [status |-> "aborted", view |-> db, start |-> now]
                /\ proc' = [proc EXCEPT ![p] = [pr EXCEPT !.pc = "rollback", !.stmt = st]]
                /\ UNCHANGED ids
           ELSE /\ conn' = [status |-> "active",
                            view |-> ApplyStatement(st, conn.view, ids, now),
                            start |-> now]
                /\ ids' = IF seq = "none" THEN ids ELSE [ids EXCEPT ![seq] = @ + 1]
                /\ proc' = [proc EXCEPT ![p] =
                               [pr EXCEPT !.pc = "commit", !.stmt = st,
                                          !.ret = IF seq = "none" THEN 0
                                                  ELSE NextId(ids, seq)]]

\* A caller enters operation op and reaches the cur.execute of its statement
CallExecute(p, op, st, then, results) ==
    /\ made' = made + 1
    /\ CursorExecute(p, [IdleProc EXCEPT !.op = op, !.then = then, !.results = results,
                                         !.at = clock, !.pre = db], st)
    /\ UNCHANGED <<db, clock, others>>

(* ---- the operations ---- *)

\* database_manager.py:344-355
record_query_prediction(p) ==
    /\ MayCall(p)
    /\ CallExecute(p, "record_query_prediction", InsertPrediction, NoStatement, << >>)
    /\ UNCHANGED calls

\* database_manager.py:357-368
start_search_session(p) ==
    /\ MayCall(p)
    /\ CallExecute(p, "start_search_session", InsertSession, NoStatement, << >>)
    /\ UNCHANGED calls

\* database_manager.py:370-382, for a session that start_search_session made
update_search_session(p) ==
    \E session_id \in SessionIds, successful \in BOOLEAN :
       /\ MayCall(p)
       /\ session_id \in DOMAIN db.search_sessions
       /\ CallExecute(p, "update_search_session",
                      UpdateSession(session_id, IF successful THEN 1 ELSE 0),
                      NoStatement, << >>)
       /\ calls' = [calls EXCEPT ![session_id].made = @ + 1]

\* database_manager.py:293-329
record_search_analytics(p) ==
    \E result_count \in ResultCounts :
       /\ MayCall(p)
       /\ CallExecute(p, "record_search_analytics", InsertSearchLog(result_count),
                      NoStatement, << >>)
       /\ UNCHANGED calls

\* database_manager.py:331-342
record_expert_search(p) ==
    \E search_id \in SearchIds, expert_id \in ExpertIds, rank_position \in RankPositions :
       /\ MayCall(p)
       /\ CallExecute(p, "record_expert_search",
                      InsertExpertSearch(search_id, expert_id, rank_position),
                      NoStatement, << >>)
       /\ UNCHANGED calls

\* database_manager.py:384-404: the search_logs UPDATE, then (if expert_id:)
\* the expert_searches UPDATE
record_click(p) ==
    \E search_id \in SearchIds, expert_id \in ExpertIds \cup {None} :
       /\ MayCall(p)
       /\ CallExecute(p, "record_click", ClickSearchLog(search_id),
                      IF expert_id # None THEN ClickExpertSearch(search_id, expert_id)
                      ELSE NoStatement,
                      << >>)
       /\ UNCHANGED calls

\* database_manager.py:406-437
get_search_metrics(p) ==
    /\ MayCall(p)
    /\ CallExecute(p, "get_search_metrics", MetricsQuery("get_search_metrics"),
                   NoStatement, << >>)
    /\ UNCHANGED calls

\* database_manager.py:439-470
get_expert_metrics(p) ==
    /\ MayCall(p)
    /\ CallExecute(p, "get_expert_metrics", MetricsQuery("get_expert_metrics"),
                   NoStatement, << >>)
    /\ UNCHANGED calls

\* database_manager.py:472-494
get_performance_metrics(p) ==
    /\ MayCall(p)
    /\ CallExecute(p, "get_performance_metrics", MetricsQuery("get_performance_metrics"),
                   NoStatement, << >>)
    /\ UNCHANGED calls

\* database_manager.py:396-401: the second execute of record_click
record_click_expert(p) ==
    /\ proc[p].pc = "execute"
    /\ CursorExecute(p, [proc[p] EXCEPT !.then = NoStatement], proc[p].then)
    /\ UNCHANGED <<db, clock, calls, made, others>>

\* search.py:101-110
FormatResults(results) ==
    [j \in 1..Len(results) |->
        [summary |-> results[j].metadata.summary,
         similarity_score |-> results[j].similarity_score]]

\* search.py:83-96: the handler calls the engine and then add_query with
\* len(results), database_manager.py:277-291
search(p) ==
    \E k \in 1..MaxK :
       LET out == SearchEngine_search(k, TRUE, CurrentIndex(k), CurrentExperts, 0)
       IN  /\ out.ok
           /\ MayCall(p)
           /\ CallExecute(p, "search", InsertQuery(Len(out.results)), NoStatement,
                          out.results)
           /\ UNCHANGED calls

\* Some embedding, index or experts failure, or a sentinel ordinal, makes
\* SearchEngine.search raise
EngineRaises ==
    \E k \in 1..MaxK, embeddingOk \in BOOLEAN, failAt \in 0..MaxK :
       \E index \in IndexOutcomes(k) :
          /\ failAt <= k
          /\ ~SearchEngine_search(k, embeddingOk, index, CurrentExperts, failAt).ok

\* search.py:86-89 with 112-114: an exception of the engine is answered with
\* a 500, add_query not being reached
search_engine_fails(p) ==
    /\ MayCall(p)
    /\ EngineRaises
    /\ made' = made + 1
    /\ proc' = [proc EXCEPT ![p] =
                   [IdleProc EXCEPT !.op = "search", !.pc = "done", !.raised = TRUE,
                                    !.at = clock, !.pre = db,
                                    !.response = Http500]]
    /\ UNCHANGED <<db, conn, ids, clock, calls, others>>

\* What the caller of execute does when it returns normally: record_click
\* goes on to its second statement; the search handler answers with the
\* formatted results; every other operation returns.
AfterExecuteReturns(pr) ==
    IF pr.then # NoStatement
    THEN [pr EXCEPT !.pc = "execute"]
    ELSE IF pr.op = "search"
    THEN [pr EXCEPT !.pc = "done", !.response = Http200(FormatResults(pr.results))]
    ELSE [pr EXCEPT !.pc = "done"]

\* search.py:98-110: the handler logs a failure of add_query and answers with
\* the formatted results all the same
AddQueryFailurePropagates(results) == Http500
AddQueryFailureResponse(results) == Http200(FormatResults(results))

\* An operation that logs the exception and returns normally
AfterExecuteRaisesLogged(pr) ==
    [pr EXCEPT !.pc = "done", !.then = NoStatement,
               !.response = IF pr.op = "search" THEN AddQueryFailureResponse(pr.results)
                            ELSE pr.response]

\* What the caller of execute does when it raises: the operations log and
\* re-raise (e.g. database_manager.py:289-291).
AfterExecuteRaises(pr) ==
    IF pr.op = "search"
    THEN [pr EXCEPT !.pc = "done", !.raised = TRUE,
                    !.response = AddQueryFailureResponse(pr.results)]
    ELSE [pr EXCEPT !.pc = "done", !.raised = TRUE, !.then = NoStatement]

\* line 24, self.conn.commit(), and lines 25-27: whatever the connection's
\* transaction holds is committed (an aborted transaction is ended without
\* an error and without effect), and execute returns.
Commit(p) ==
    /\ proc[p].pc = "commit"
    /\ db' = IF conn.status = "aborted" THEN db ELSE conn.view
    /\ conn' = ConnIdle(db')
    /\ proc' = [proc EXCEPT ![p] = AfterExecuteReturns(@)]
    /\ UNCHANGED <<ids, clock, calls, made, others>>

\* A rollback that also takes back what the operation committed before
RollbackCompensates(p) ==
    /\ proc[p].pc = "rollback"
    /\ db' = proc[p].pre
    /\ conn' = ConnIdle(db')
    /\ proc' = [proc EXCEPT ![p] = AfterExecuteRaises(@)]
    /\ UNCHANGED <<ids, clock, calls, made, others>>

\* lines 28-31, self.conn.rollback(); raise: whatever the connection's
\* transaction holds is discarded, and the exception goes to the caller.
Rollback(p) ==
    /\ proc[p].pc = "rollback"
    /\ conn' = ConnIdle(db)
    /\ proc' = [proc EXCEPT ![p] = AfterExecuteRaises(@)]
    /\ UNCHANGED <<db, ids, clock, calls, made, others>>

\* The operation is over and its caller has the result or the exception.
Return(p) ==
    /\ proc[p].pc = "done"
    /\ calls' = IF proc[p].op = "update_search_session" /\ ~proc[p].raised
                THEN [calls EXCEPT ![proc[p].stmt.id].returned = @ + 1,
                                   ![proc[p].stmt.id].successful = @ + proc[p].stmt.n]
                ELSE calls
    /\ proc' = [proc EXCEPT ![p] = IdleProc]
    /\ UNCHANGED <<db, conn, ids, clock, made, others>>

Tick ==
    /\ clock < MaxClock
    /\ clock' = clock + 1
    /\ UNCHANGED <<db, conn, ids, proc, calls, made, others>>

\* Everything but the import of the endpoints module
InitRequests ==
    /\ predictCall = NoPredictCall
    /\ engineCall = NoEngineCall
    /\ titleCall = NoTitleCall
    /\ request = NoRequest
    /\ db = StoredTables
    /\ conn = ConnIdle(StoredTables)
    /\ ids = StoredIds
    /\ clock = 0
    /\ proc = [p \in Procs |-> IdleProc]
    /\ calls = [s \in SessionIds |-> [made |-> 0, returned |-> 0, successful |-> 0]]
    /\ made = 0

\* The module has been imported and its handlers serve
Init == InitRequests /\ service = Imported

\* The module is about to be imported, with either file present or missing
InitStartup == InitRequests /\ service \in Importing

\* Callers on concurrent threads, interleaved at the calls execute makes on
\* the shared connection
Next ==
    \E p \in Procs :
       \/ start_search_session(p)
       \/ update_search_session(p)
       \/ record_search_analytics(p)
       \/ record_expert_search(p)
       \/ record_query_prediction(p)
       \/ record_click(p)
       \/ record_click_expert(p)
       \/ get_search_metrics(p)
       \/ get_expert_metrics(p)
       \/ get_performance_metrics(p)
       \/ search(p)
       \/ search_engine_fails(p)
       \/ Commit(p)
       \/ Rollback(p)
       \/ Return(p)

Spec == Init /\ [][Next]_vars

\* One caller after the other, with time passing
NextSeq ==
    \/ start_search_session(1)
    \/ update_search_session(1)
    \/ record_search_analytics(1)
    \/ record_expert_search(1)
    \/ record_query_prediction(1)
    \/ record_click(1)
    \/ record_click_expert(1)
    \/ get_search_metrics(1)
    \/ get_expert_metrics(1)
    \/ get_performance_metrics(1)
    \/ search(1)
    \/ search_engine_fails(1)
    \/ Commit(1)
    \/ Rollback(1)
    \/ Return(1)
    \/ Tick

SpecSeq == Init /\ [][NextSeq]_vars

NextPredict == predict_queries \/ PredictResponseSent

SpecPredict == Init /\ [][NextPredict]_vars

NextEngine == EngineSearchCall \/ EngineSearchReturned

SpecEngine == Init /\ [][NextEngine]_vars

NextTitle == TitleSearchCall \/ TitleSearchReturned

NextLive ==
    \/ ReceiveSearch
    \/ GetEmbedding
    \/ IndexSearch
    \/ AssembleResults
    \/ RespondSearch

\* The thread that runs a request takes its next step whenever it has one
SpecLive == Init /\ [][NextLive]_vars /\ WF_vars(NextLive)

NextStartup ==
    \/ LoadEmbeddingModel
    \/ LoadIndex
    \/ LoadChunkMapping
    \/ CreateExpertsManager
    \/ CreateDatabaseManager
    \/ ModuleInitFails
    \/ ServeRequest

SpecStartup == InitStartup /\ [][NextStartup]_vars

SpecTitle == Init /\ [][NextTitle]_vars

(***************************************************************************)
(* Claims about /predict                                                   *)
(***************************************************************************)
Min(a, b) == IF a < b THEN a ELSE b

\* s without every entry whose lower-cased form equals that of an earlier one
FirstSeenOnly(s) ==
    LET F[i \in 0..Len(s)] ==
            IF i = 0 THEN << >>
            ELSE IF \A j \in 1..(i - 1) : lower(s[j]) # lower(s[i])
                 THEN Append(F[i - 1], s[i])
                 ELSE F[i - 1]
    IN  F[Len(s)]

FirstN(s, n) == SubSeq(s, 1, Min(n, Len(s)))

BothSourcesAnswered ==
    /\ predictCall.db.called /\ predictCall.db.ok
    /\ predictCall.engine.called /\ predictCall.engine.ok

\* C5: with both sources answering, a partial query of length >= 2 and
\* limit >= 0, the response is the first `limit` entries of (DB matches
\* followed by engine matches) with case-insensitive later duplicates removed;
\* so it is no longer than limit and holds no two entries equal ignoring case.
C5_MergeIsDedupPrefix ==
    (BothSourcesAnswered /\ predictCall.limit >= 0) =>
        LET body == predictCall.response.body
        IN  /\ Len(predictCall.partial_query) >= 2
            /\ predictCall.response.status = 200
            /\ body = FirstN(FirstSeenOnly(predictCall.db.value \o predictCall.engine.value),
                             predictCall.limit)
            /\ Len(body) <= predictCall.limit
            /\ \A i, j \in 1..Len(body) : i # j => lower(body[i]) # lower(body[j])

\* The merge of the spec's example: the engine's case-different duplicate of a
\* DB entry is dropped and a new engine entry is appended after the DB ones.
C5_Witness ==
    /\ BothSourcesAnswered
    /\ predictCall.limit = 3
    /\ predictCall.db.value = << <<"m", "l">>, <<"m", "v">> >>
    /\ predictCall.engine.value = << <<"M", "L", "b">>, <<"M", "V">> >>
    /\ predictCall.response.body = << <<"m", "l">>, <<"m", "v">>, <<"M", "L", "b">> >>

\* C6: a partial query shorter than 2 characters is answered with the empty
\* list as a normal result, and neither source is called.
C6_ShortQueryShortCircuit ==
    (predictCall.response.status # 0 /\ Len(predictCall.partial_query) < 2) =>
        /\ predictCall.response = Http200(<< >>)
        /\ ~predictCall.db.called
        /\ ~predictCall.engine.called

C6_Witness ==
    /\ Len(predictCall.partial_query) = 1
    /\ predictCall.response = Http200(<< >>)
    /\ ~predictCall.db.called

\* C7: when the DB-side lookup fails the call is answered with an error and
\* no prediction list, the engine source not being consulted.
C7_DbFailureIsFatal ==
    (predictCall.db.called /\ ~predictCall.db.ok) =>
        /\ predictCall.response.status = 500
        /\ predictCall.response.body = << >>
        /\ ~predictCall.engine.called

C7_Witness ==
    /\ predictCall.db.called /\ ~predictCall.db.ok
    /\ Len(predictCall.partial_query) >= 2
    /\ predictCall.response.status = 500

\* C8: when the engine source fails and the DB source answers, the call
\* succeeds with the case-insensitively deduplicated DB matches cut to limit.
C8_EngineFailureTolerated ==
    (/\ predictCall.db.called /\ predictCall.db.ok
     /\ predictCall.engine.called /\ ~predictCall.engine.ok
     /\ predictCall.limit >= 0) =>
        /\ predictCall.response.status = 200
        /\ predictCall.response.body =
               FirstN(FirstSeenOnly(predictCall.db.value), predictCall.limit)

C8_Witness ==
    /\ predictCall.engine.called /\ ~predictCall.engine.ok
    /\ predictCall.db.value = << <<"m", "v">>, <<"M", "V">> >>
    /\ predictCall.limit = 2
    /\ predictCall.response = Http200(<< <<"m", "v">> >>)

(***************************************************************************)
(* Claims about SearchEngine.search                                        *)
(***************************************************************************)
EngineAllAnswered ==
    /\ engineCall.k > 0
    /\ engineCall.embeddingOk
    /\ engineCall.index.ok
    /\ engineCall.failAt = 0

\* C2: for k <= corpus size (every collaborator answering), search returns
\* exactly k results, no two of the same chunk ordinal, in the order in which
\* the index returned the ordinals.
C2_ExactlyKInIndexOrder ==
    (EngineAllAnswered /\ engineCall.k <= CorpusSize) =>
        LET res == engineCall.out.results
        IN  /\ engineCall.out.ok
            /\ Len(res) = engineCall.k
            /\ \A i, j \in 1..Len(res) :
                   i # j => res[i].metadata.ordinal # res[j].metadata.ordinal
            /\ \A j \in 1..Len(res) : res[j].metadata.ordinal = engineCall.index.I[j]

C2_Witness ==
    /\ EngineAllAnswered
    /\ engineCall.k = CorpusSize
    /\ engineCall.index.I = <<1, 0>>
    /\ engineCall.out.ok
    /\ Len(engineCall.out.results) = 2
    /\ engineCall.out.results[1].metadata.ordinal = 1

\* C3: for k > corpus size (every collaborator answering), search drops the
\* sentinel ordinals and returns one result per real chunk, fewer than k,
\* instead of failing.
C3_SentinelsDropped ==
    (EngineAllAnswered /\ engineCall.k > CorpusSize) =>
        LET res == engineCall.out.results
            realI == SelectSeq(engineCall.index.I, LAMBDA o : o # Sentinel)
        IN  /\ engineCall.out.ok
            /\ Len(res) < engineCall.k
            /\ Len(res) = Len(realI)
            /\ \A j \in 1..Len(res) : res[j].metadata.ordinal = realI[j]

(***************************************************************************)
(* Claims about the analytics store and the / handler                      *)
(***************************************************************************)
UpdateInFlight(s) ==
    \E p \in Procs : proc[p].op = "update_search_session" /\ proc[p].stmt.id = s

\* Every operation made so far was an update_search_session of session s
OnlyUpdatesOf(s) == calls[s].made = made

\* C1: when update_search_session calls on one session run concurrently (and
\* nothing else does), once all have completed the session's query_count has
\* grown by the number of calls that returned and successful_searches by the
\* number of those made with successful = true: no increment is lost.
C1_NoLostIncrement ==
    \A s \in DOMAIN db.search_sessions :
       (OnlyUpdatesOf(s) /\ ~UpdateInFlight(s)) =>
          /\ db.search_sessions[s].query_count = calls[s].returned
          /\ db.search_sessions[s].successful_searches = calls[s].successful

\* C4: a search request whose engine call succeeded is answered with the
\* formatted engine results whether add_query returned or raised (whatever
\* made its statement fail).
C4_AnalyticsBestEffort ==
    \A p \in Procs :
       (proc[p].op = "search" /\ proc[p].pc = "done" /\ proc[p].stmt.kind = "insert_query") =>
          /\ proc[p].response = Http200(FormatResults(proc[p].results))
          /\ Len(proc[p].response.body) = proc[p].stmt.n

C4_Witness ==
    \E p \in Procs :
       /\ proc[p].op = "search" /\ proc[p].pc = "done"
       /\ proc[p].stmt.kind = "insert_query"
       /\ proc[p].raised
       /\ proc[p].response.status = 200
       /\ Len(proc[p].response.body) = 2
       /\ db.query_history_ai = << >>

ClickReturned(p) ==
    /\ proc[p].op = "record_click" /\ proc[p].pc = "done" /\ ~proc[p].raised
    /\ proc[p].stmt.kind = "click_expert_search"
    /\ <<proc[p].stmt.id, proc[p].stmt.expert_id>> \in DOMAIN proc[p].pre.expert_searches

\* C9: when record_click(search_id, expert_id) on an existing attribution
\* returns, called one after the other, the attribution is clicked and its
\* click_timestamp is the time of this, the last, call (not of an earlier one).
C9_LastClickWins ==
    \A p \in Procs :
       ClickReturned(p) =>
          LET row == db.expert_searches[<<proc[p].stmt.id, proc[p].stmt.expert_id>>]
          IN  /\ row.clicked
              /\ proc[p].at <= row.click_timestamp
              /\ row.click_timestamp <= clock

\* A second click, later than the first, has overwritten the first's time.
C9_Witness ==
    \E p \in Procs :
       /\ ClickReturned(p)
       /\ LET key == <<proc[p].stmt.id, proc[p].stmt.expert_id>>
          IN  /\ proc[p].pre.expert_searches[key].clicked
              /\ proc[p].pre.expert_searches[key].click_timestamp < proc[p].at
              /\ db.expert_searches[key].click_timestamp >= proc[p].at

\* C10: from one state to the next no session's committed query_count or
\* successful_searches decreases (and no session disappears).
C10_CountersMonotonic ==
    [][\A s \in DOMAIN db.search_sessions :
          /\ s \in DOMAIN db'.search_sessions
          /\ db'.search_sessions[s].query_count >= db.search_sessions[s].query_count
          /\ db'.search_sessions[s].successful_searches >=
                db.search_sessions[s].successful_searches]_vars

C10_Witness ==
    /\ 1 \in DOMAIN db.search_sessions
    /\ db.search_sessions[1].query_count = 2
    /\ db.search_sessions[1].successful_searches = 1

(***************************************************************************)
(* Claims about failures and experts in SearchEngine.search                *)
(***************************************************************************)
SomeCollaboratorFailed ==
    /\ engineCall.k > 0
    /\ \/ ~engineCall.embeddingOk
       \/ ~engineCall.index.ok
       \/ engineCall.failAt \in 1..engineCall.k

\* C11: when the embedding call, the index search or the experts lookup of
\* any one result fails, search raises: it returns no result list at all,
\* neither the results assembled before the failure nor one without experts.
C11_EngineFailurePropagates ==
    SomeCollaboratorFailed =>
        /\ ~engineCall.out.ok
        /\ engineCall.out.results = << >>
        /\ engineCall.out.error \in {"embedding", "index", "experts", "KeyError"}

\* The experts lookup of the second result fails after the first result was
\* assembled, and the call raises.
C11_Witness ==
    /\ engineCall.k = 2
    /\ engineCall.embeddingOk /\ engineCall.index.ok
    /\ engineCall.failAt = 2
    /\ engineCall.out = SearchRaised("experts")


\* C12: every result search returns carries exactly the first min(3, n) of
\* the n experts the collaborator lists for the result's chunk domain, in the
\* collaborator's order, and never more than 3.
C12_FirstThreeExperts ==
    engineCall.out.ok =>
        \A j \in 1..Len(engineCall.out.results) :
           LET res == engineCall.out.results[j]
               listed == engineCall.experts[GetDomain(res.metadata)]
           IN  /\ res.experts = FirstN(listed, 3)
               /\ Len(res.experts) = Min(3, Len(listed))
               /\ Len(res.experts) <= 3

\* The collaborator lists four experts for "health" and the result of the
\* health chunk keeps the first three.
C12_Witness ==
    /\ engineCall.out.ok
    /\ Len(engineCall.out.results) >= 1
    /\ engineCall.out.results[1].metadata.Domain = "health"
    /\ engineCall.experts["health"] = <<"e1", "e2", "e3", "e4">>
    /\ engineCall.out.results[1].experts = <<"e1", "e2", "e3">>


SearchAnswered(p) ==
    /\ proc[p].op = "search" /\ proc[p].pc = "done" /\ ~proc[p].raised
    /\ proc[p].response.status = 200

\* C14: once a search request has returned its results (the store being
\* available), the store holds, for every expert of every returned result, an
\* attribution row written by this request whose rank_position is the
\* expert's zero-based position in the result's expert list.
C14_ResultsAttributed ==
    \A p \in Procs :
       SearchAnswered(p) =>
          \A j \in 1..Len(proc[p].results) :
             \A i \in 1..Len(proc[p].results[j].experts) :
                \E key \in DOMAIN db.expert_searches :
                   /\ key \notin DOMAIN proc[p].pre.expert_searches
                   /\ key[2] = proc[p].results[j].experts[i]
                   /\ db.expert_searches[key].rank_position = i - 1


\* p has executed a statement that execute has neither committed nor rolled back yet
InTransaction(p) == proc[p].pc \in {"commit", "rollback"}

\* C15: every operation has a connection, hence a transaction, of its own:
\* while a caller's statement is executed and not yet committed, its
\* transaction is open and intact (no other caller's failure has aborted it,
\* no other caller's commit or rollback has ended it) and holds no other
\* caller's statement.
C15_OwnConnection ==
    \A q \in Procs :
       proc[q].pc = "commit" =>
          /\ conn.status = "active"
          /\ \A p \in Procs \ {q} : ~InTransaction(p)


\* The rows an operation that raised must have left behind: those stored when
\* it was entered, with record_click's search-log update in place when it was
\* the attribution update that failed.
RowsAfterFailure(pr) ==
    IF pr.stmt.kind = "click_expert_search" /\ pr.stmt.id \in DOMAIN pr.pre.search_logs
    THEN [pr.pre EXCEPT !.search_logs[pr.stmt.id].clicked = TRUE]
    ELSE pr.pre

\* C16: when a write of one search's analytics sequence fails (calls made one
\* after the other), the rows committed by the earlier writes of the sequence
\* are exactly as written: the rollback undoes the failing statement only.
C16_NoCompensatingRollback ==
    \A p \in Procs :
       (proc[p].pc = "done" /\ proc[p].raised /\ proc[p].stmt # NoStatement) =>
          db = RowsAfterFailure(proc[p])

\* record_click's attribution update failed after its search-log update was
\* committed, and the search log stays clicked.
C16_Witness ==
    \E p \in Procs :
       /\ proc[p].op = "record_click" /\ proc[p].pc = "done" /\ proc[p].raised
       /\ proc[p].stmt.kind = "click_expert_search"
       /\ ~proc[p].pre.search_logs[1].clicked
       /\ db.search_logs[1].clicked


(***************************************************************************)
(* Claims about search_by_title                                            *)
(***************************************************************************)
\* The positions of the catalog whose title holds the query, ignoring case
MatchingPositions(catalog, title_query) ==
    {i \in 1..Len(catalog) :
        \E a \in 0..(Len(catalog[i]) - Len(title_query)) :
           \A c \in 1..Len(title_query) :
              LowerChar(catalog[i][a + c]) = LowerChar(title_query[c])}

\* C17: for k >= 0, search_by_title returns exactly min(k, m) entries, m being
\* the number of chunks whose title holds the query as a case-insensitive
\* substring; each entry is such a chunk with score 1.0, none twice, in the
\* catalog's order (so they are the first min(k, m) matching chunks).
C17_TitleSearchFirstK ==
    (titleCall.called /\ titleCall.k >= 0) =>
        LET out == titleCall.out
            M == MatchingPositions(titleCall.catalog, titleCall.title_query)
        IN  /\ Len(out) = Min(titleCall.k, Cardinality(M))
            /\ \A j \in 1..Len(out) :
                  /\ out[j].metadata.ordinal + 1 \in M
                  /\ out[j].metadata.Title = titleCall.catalog[out[j].metadata.ordinal + 1]
                  /\ out[j].similarity = 10
                  /\ Cardinality({i \in M : i <= out[j].metadata.ordinal + 1}) = j
            /\ \A i, j \in 1..Len(out) :
                  i < j => out[i].metadata.ordinal < out[j].metadata.ordinal

\* Two chunks match "ne" ignoring case and k = 1: the first of them comes back.
C17_Witness ==
    /\ titleCall.called
    /\ titleCall.catalog = << <<"N", "e", "u">>, <<"b", "i", "o">>, <<"n", "e", "t">> >>
    /\ titleCall.title_query = <<"n", "e">>
    /\ titleCall.k = 1
    /\ Len(titleCall.out) = 1
    /\ titleCall.out[1].metadata.ordinal = 0


(***************************************************************************)
(* Claims about startup                                                    *)
(***************************************************************************)
\* C18: with the index file or the chunk-mapping file (or both) missing at
\* startup, the service never serves: no search, title-search or predict
\* request is ever answered, and the construction ends in a fatal error.
C18_MissingFileIsFatal ==
    (~service.indexFile \/ ~service.mappingFile) =>
        /\ service.pc # "serving"
        /\ service.answered = NoneAnswered
        /\ service.pc \in {"embedding_model", "index", "chunk_mapping", "raised", "failed"}

\* The index is there, the mapping is not: the import has failed on it.
C18_Witness ==
    /\ service.indexFile /\ ~service.mappingFile
    /\ service.pc = "failed"
    /\ service.error = "FileNotFoundError"


(***************************************************************************)
(* Claims about record_search_analytics and the metrics                    *)
(***************************************************************************)
\* C19: the success_rate stored by record_search_analytics is 1.0 (10 tenths)
\* when result_count > 0 and 0.0 otherwise, result_count = 0 included.
C19_SuccessRateIsBinary ==
    \A id \in DOMAIN db.search_logs :
       LET row == db.search_logs[id]
       IN  /\ row.result_count > 0 => row.success_rate = 10
           /\ row.result_count <= 0 => row.success_rate = 0

\* A call with result_count = 0 has returned and its row holds 0.0.
C19_Witness ==
    \E p \in Procs :
       /\ proc[p].op = "record_search_analytics" /\ proc[p].pc = "done" /\ ~proc[p].raised
       /\ proc[p].ret \in DOMAIN db.search_logs
       /\ proc[p].ret \notin DOMAIN proc[p].pre.search_logs
       /\ db.search_logs[proc[p].ret].result_count = 0
       /\ db.search_logs[proc[p].ret].success_rate = 0


MetricsOperations == {"get_search_metrics", "get_expert_metrics", "get_performance_metrics"}

\* C20: a metrics call (made while no other operation runs) leaves every
\* persisted row as it found it, whether it returns or raises.
C20_MetricsReadOnly ==
    \A p \in Procs :
       (proc[p].op \in MetricsOperations /\ proc[p].pc = "done") =>
          /\ db = proc[p].pre
          /\ conn = ConnIdle(proc[p].pre)

\* After an earlier call has written a row, get_search_metrics has raised and
\* the rows are those it found.
C20_Witness ==
    \E p \in Procs :
       /\ proc[p].op = "get_search_metrics" /\ proc[p].pc = "done" /\ proc[p].raised
       /\ db # StoredTables
       /\ db = proc[p].pre


(***************************************************************************)
(* Claims about termination                                                *)
(***************************************************************************)
\* C21: every search request eventually completes, with a result or an
\* error, even when the embedding call or the index lookup never returns.
C21_SearchCompletes ==
    (request.pc = "get_embedding") ~> (request.pc = "respond")


(***************************************************************************)
(* Claims about clicks, query history and failing writes                   *)
(***************************************************************************)
\* Every row of table t is still there in the next state
RowsKept(t) == \A key \in DOMAIN db[t] : key \in DOMAIN db'[t]

\* C22: from one state to the next, a search-log row or an attribution row
\* that is clicked stays clicked, and no analytics row of any table is deleted.
C22_ClickedStaysAndNoDelete ==
    [][/\ RowsKept("search_logs") /\ RowsKept("expert_searches")
       /\ RowsKept("search_sessions") /\ RowsKept("query_history_ai")
       /\ RowsKept("query_predictions")
       /\ \A id \in DOMAIN db.search_logs :
             db.search_logs[id].clicked => db'.search_logs[id].clicked
       /\ \A key \in DOMAIN db.expert_searches :
             /\ db.expert_searches[key].clicked => db'.expert_searches[key].clicked
             /\ db'.expert_searches[key].copies >= db.expert_searches[key].copies]_vars

\* A second click on a clicked attribution has returned and the row is still
\* clicked.
C22_Witness ==
    \E p \in Procs :
       /\ proc[p].op = "record_click" /\ proc[p].pc = "done" /\ ~proc[p].raised
       /\ proc[p].stmt = ClickExpertSearch(1, "e1")
       /\ proc[p].pre.expert_searches[<<1, "e1">>].clicked
       /\ proc[p].pre.search_logs[1].clicked
       /\ db.expert_searches[<<1, "e1">>].clicked
       /\ db.search_logs[1].clicked


\* The query-history rows stored since caller p entered its operation
NewQueryRows(p) == DOMAIN db.query_history_ai \ DOMAIN proc[p].pre.query_history_ai

\* C23: a search request (requests coming one at a time) that has returned
\* its results with the store available has created exactly one
\* query-history row, whose result_count is the number of results returned;
\* and no search request, whatever its outcome, has created more than one.
C23_OneQueryRowPerSearch ==
    \A p \in Procs :
       (proc[p].op = "search" /\ proc[p].pc = "done") =>
          /\ Cardinality(NewQueryRows(p)) <= 1
          /\ SearchAnswered(p) =>
                /\ Cardinality(NewQueryRows(p)) = 1
                /\ \A id \in NewQueryRows(p) :
                      /\ db.query_history_ai[id].result_count = Len(proc[p].response.body)
                      /\ id = proc[p].ret

\* A search has returned two results and its one new row counts two.
C23_Witness ==
    \E p \in Procs :
       /\ SearchAnswered(p)
       /\ Len(proc[p].response.body) = 2
       /\ NewQueryRows(p) = {proc[p].ret}
       /\ db.query_history_ai[proc[p].ret].result_count = 2


\* The operations that hand one statement, a write, to execute ("search" is
\* the handler's add_query)
SingleStatementWrites ==
    {"search", "record_search_analytics", "record_expert_search",
     "record_query_prediction", "start_search_session", "update_search_session"}

\* C24: when the statement of a single-statement write operation has failed
\* in execute, the step that rolls back and leaves execute leaves every
\* persisted row as it was before the call, the connection without an open
\* transaction, and the operation raising to its caller.
C24_FailedWriteRollsBackAndRaises ==
    [][\A p \in Procs :
          (/\ proc[p].op \in SingleStatementWrites
           /\ proc[p].pc = "rollback"
           /\ proc'[p].pc # "rollback") =>
             /\ db' = db
             /\ db' = proc[p].pre
             /\ conn' = ConnIdle(proc[p].pre)
             /\ proc'[p].pc = "done"
             /\ proc'[p].raised]_vars

\* update_search_session has raised and the rows are those before the call.
C24_Witness ==
    \E p \in Procs :
       /\ proc[p].op = "update_search_session" /\ proc[p].pc = "done" /\ proc[p].raised
       /\ proc[p].stmt.kind = "update_session"
       /\ db = proc[p].pre
       /\ db # StoredTables


\* Everything of a search-log row but its clicked flag
LogKept(row) == [result_count |-> row.result_count, success_rate |-> row.success_rate]

\* C25: when record_click is over (calls made one after the other), no table
\* has a row it did not have before; sessions, query history and predictions
\* are untouched; no search-log row but the one with the given id differs, and
\* that one in its clicked flag only; without an expert id no attribution row
\* differs, and with one no attribution row but that of exactly the given
\* pair (so none when the pair is not stored).
C25_ClickTouchesOnlyTargets ==
    \A p \in Procs :
       (proc[p].op = "record_click" /\ proc[p].pc = "done") =>
          LET pre == proc[p].pre
              st == proc[p].stmt
          IN  /\ \A t \in DOMAIN db : DOMAIN db[t] = DOMAIN pre[t]
              /\ db.search_sessions = pre.search_sessions
              /\ db.query_history_ai = pre.query_history_ai
              /\ db.query_predictions = pre.query_predictions
              /\ \A id \in DOMAIN db.search_logs :
                    /\ id # st.id => db.search_logs[id] = pre.search_logs[id]
                    /\ LogKept(db.search_logs[id]) = LogKept(pre.search_logs[id])
              /\ \A key \in DOMAIN db.expert_searches :
                    (st.kind # "click_expert_search" \/ key # <<st.id, st.expert_id>>)
                       => db.expert_searches[key] = pre.expert_searches[key]

\* A click on (1, "e2"), which is not stored, has returned: the search log is
\* clicked and the attributions, that of (1, "e1") among them, are as before.
C25_Witness ==
    \E p \in Procs :
       /\ proc[p].op = "record_click" /\ proc[p].pc = "done" /\ ~proc[p].raised
       /\ proc[p].stmt = ClickExpertSearch(1, "e2")
       /\ <<1, "e2">> \notin DOMAIN db.expert_searches
       /\ db.expert_searches = proc[p].pre.expert_searches
       /\ db.search_logs[1].clicked /\ ~proc[p].pre.search_logs[1].clicked


\* C26: in every reachable state every session has
\* 0 <= successful_searches <= query_count, and (no update of it being under
\* way) its query_count is the number of update_search_session calls for it
\* that have completed.
C26_SessionCountsCompletedUpdates ==
    \A s \in DOMAIN db.search_sessions :
       /\ 0 <= db.search_sessions[s].successful_searches
       /\ db.search_sessions[s].successful_searches <= db.search_sessions[s].query_count
       /\ ~UpdateInFlight(s) => db.search_sessions[s].query_count = calls[s].returned

====
